---- MODULE Spec2Model ----
(***************************************************************************)
(* A model of scripts/build_dashboard_assets.py: the extraction of chart   *)
(* images and summary fields from an executed notebook and an HTML profile *)
(* report, and the writing of metrics.json / metrics.js.                   *)
(*                                                                         *)
(* Representation.  A Python str is a sequence of tokens.  A token is a    *)
(* TLA+ string standing for one character ("1", ",", ".", " ", "\n") or    *)
(* for one literal word of the upstream text that the patterns of the      *)
(* script look for ("Mean:", "rows", "MiB", ...).  A Python value is a     *)
(* tagged record: None, IntV(n), Float(num, scale) (the decimal number     *)
(* num / 10^scale), Str(s), List(items), Tuple(items), a record for a dict  *)
(* with fixed keys, or Raise(exc) for an exception that leaves the         *)
(* function.                                                               *)
(***************************************************************************)
EXTENDS Integers, Sequences, FiniteSets, TLC

VARIABLES
    fs,             \* the files and directories on disk
    pc,             \* the position of main()
    notebook,       \* main's local `notebook` (the loaded cell list)
    chart_files,    \* main's local `chart_files`
    profile_path,   \* main's local `profile_path`
    profile_report, \* main's local `profile_report`
    metrics,        \* main's local `metrics`
    error,          \* the exception that left main(), or None
    fn,             \* pure-function specifications: the function applied
    arg,            \* ... its argument
    ret             \* ... its return value (or the exception it raised)

vars == <<fs, pc, notebook, chart_files, profile_path, profile_report,
          metrics, error, fn, arg, ret>>

----------------------------------------------------------------------------
(* Bounds of the checked inputs.                                           *)

MaxNumLen == 4
MaxDriverLen == 4
MaxDrivers == 3
MaxTableRows == 2
MaxBase == 2
MaxReps == 8
MaxOutputs == 3
MaxRowDigits == 2

----------------------------------------------------------------------------
(* Python values.                                                          *)

None == [t |-> "None"]
IntV(n) == [t |-> "int", v |-> n]
Str(s) == [t |-> "str", s |-> s]
List(items) == [t |-> "list", items |-> items]
Tuple(items) == [t |-> "tuple", items |-> items]
Raise(exc) == [t |-> "raise", exc |-> exc]
Exceptions == {"ValueError", "TypeError", "IndexError", "KeyError",
               "FileNotFoundError", "JSONDecodeError", "binascii.Error"}
IsRaise(v) == v \in {Raise(exc) : exc \in Exceptions}
\* dict.get / `in` on a key the dict does not hold
NoKey == [t |-> "nokey"]

\* A float is the number  m * 2^e2 * 5^e5  with m divisible by neither 2 nor
\* 5 (and 0 is m = 0, e2 = e5 = 0): equal numbers are equal records, and a
\* byte count of several GiB needs no integer beyond 32 bits.
RECURSIVE Canon(_, _, _)
Canon(m, e2, e5) ==
    IF m = 0 THEN [t |-> "float", m |-> 0, e2 |-> 0, e5 |-> 0]
    ELSE IF m % 2 = 0 THEN Canon(m \div 2, e2 + 1, e5)
    ELSE IF m % 5 = 0 THEN Canon(m \div 5, e2, e5 + 1)
    ELSE [t |-> "float", m |-> m, e2 |-> e2, e5 |-> e5]

RECURSIVE Pow(_, _)
Pow(b, e) == IF e = 0 THEN 1 ELSE b * Pow(b, e - 1)

\* The float of the decimal number  num / 10^scale
Float(num, scale) == Canon(num, 0 - scale, 0 - scale)

\* float * int
FloatTimes(f, n) ==
    LET c == Canon(n, 0, 0) IN Canon(f.m * c.m, f.e2 + c.e2, f.e5 + c.e5)

FloatNeg(f) == [f EXCEPT !.m = 0 - f.m]

----------------------------------------------------------------------------
(* Characters and strings.                                                 *)

Digits == {"0", "1", "2", "3", "4", "5", "6", "7", "8", "9"}
DigitVal == [c \in Digits |->
    CASE c = "0" -> 0 [] c = "1" -> 1 [] c = "2" -> 2 [] c = "3" -> 3
      [] c = "4" -> 4 [] c = "5" -> 5 [] c = "6" -> 6 [] c = "7" -> 7
      [] c = "8" -> 8 [] c = "9" -> 9]
Whitespace == {" ", "\n"}

\* The character classes of the patterns: \d  [\d,]  [\d.]  [\d,\.]
ClassD == Digits
ClassDC == Digits \cup {","}
ClassDP == Digits \cup {"."}
ClassDCP == Digits \cup {",", "."}

Count(s, c) == Cardinality({i \in 1..Len(s) : s[i] = c})
AllIn(s, class) == \A i \in 1..Len(s) : s[i] \in class
Range(s) == {s[i] : i \in 1..Len(s)}

\* str.replace(old, "") for a one-character old
Remove(s, c) == SelectSeq(s, LAMBDA ch : ch # c)

\* str.strip()
RECURSIVE LStrip(_)
LStrip(s) == IF s # <<>> /\ Head(s) \in Whitespace THEN LStrip(Tail(s)) ELSE s
RECURSIVE RStrip(_)
RStrip(s) ==
    IF s # <<>> /\ s[Len(s)] \in Whitespace
    THEN RStrip(SubSeq(s, 1, Len(s) - 1)) ELSE s
Strip(s) == RStrip(LStrip(s))

\* The end of the longest run of `class` characters of s that starts at i
\* (i - 1 when s[i] is not of the class): a greedy  [class]*  at i.
RECURSIVE RunEnd(_, _, _)
RunEnd(s, i, class) ==
    IF i <= Len(s) /\ s[i] \in class THEN RunEnd(s, i + 1, class) ELSE i - 1

\* The start of the longest run of `class` characters of s that ends at j.
RECURSIVE RunStart(_, _, _)
RunStart(s, j, class) ==
    IF j >= 1 /\ s[j] \in class THEN RunStart(s, j - 1, class) ELSE j + 1

\* The first position at or after i that is not whitespace: a greedy \s* at i.
SkipWs(s, i) == RunEnd(s, i, Whitespace) + 1

RECURSIVE DigitsValue(_)
DigitsValue(s) ==
    IF s = <<>> THEN 0
    ELSE DigitsValue(SubSeq(s, 1, Len(s) - 1)) * 10 + DigitVal[s[Len(s)]]

----------------------------------------------------------------------------
(* int(), float() and the number helpers.                                  *)

\* int(text): surrounding whitespace is ignored, the rest must be digits
PyInt(text) ==
    LET s == Strip(text)
    IN  IF s # <<>> /\ AllIn(s, Digits) THEN IntV(DigitsValue(s))
        ELSE Raise("ValueError")

\* float(text): surrounding whitespace is ignored; the rest, after an optional
\* sign, must be digits with at most one point and at least one digit.  (The
\* patterns of the script let no exponent, "inf" or "nan" reach float().)
PyFloatAbs(s) ==
    IF AllIn(s, ClassDP) /\ Count(s, ".") <= 1 /\ Len(s) > Count(s, ".")
    THEN LET whole == SubSeq(s, 1, RunEnd(s, 1, Digits))
             frac == SubSeq(s, Len(whole) + 2, Len(s))
         IN  Float(DigitsValue(whole \o frac), Len(frac))
    ELSE Raise("ValueError")
PyFloat(text) ==
    LET s == Strip(text)
    IN  IF s # <<>> /\ Head(s) = "-"
        THEN LET a == PyFloatAbs(Tail(s))
             IN  IF IsRaise(a) THEN a ELSE FloatNeg(a)
        ELSE PyFloatAbs(s)

\* parse_int without the removal of the thousands separators
parse_int_keeping_commas(value) == PyInt(Strip(value))
parse_int(value) == PyInt(Strip(Remove(value, ",")))

parse_float(value) == PyFloat(Strip(Remove(value, ",")))

parse_number(value) ==
    LET v == Remove(Strip(value), ",")
    IN  IF v = <<>> THEN None
        ELSE LET n == IF Count(v, ".") > 0 THEN PyFloat(v) ELSE PyInt(v)
             IN  IF n = Raise("ValueError") THEN None ELSE n

----------------------------------------------------------------------------
(* re.search for the scalar patterns  <label>\s*([class]+) .                *)

NoMatch == [t |-> "nomatch"]

\* The positions where  <label>\s*([class]+)  matches.
LabelHits(text, label, class) ==
    {i \in 1..Len(text) :
        /\ text[i] = label
        /\ RunEnd(text, SkipWs(text, i + 1), class) >= SkipWs(text, i + 1)}

Min(S) == CHOOSE x \in S : \A y \in S : x <= y
Max(S) == CHOOSE x \in S : \A y \in S : x >= y

\* Group 1 of the first match of  <label>\s*([class]+) , or NoMatch.
SearchLabel(text, label, class) ==
    LET hits == LabelHits(text, label, class)
    IN  IF hits = {} THEN NoMatch
        ELSE LET b == SkipWs(text, Min(hits) + 1)
             IN  Str(SubSeq(text, b, RunEnd(text, b, class)))

\* `values[key] = parse_float(match.group(1))` when the pattern matches,
\* else the initial None
FloatField(text, label, class) ==
    LET m == SearchLabel(text, label, class)
    IN  IF m = NoMatch THEN None ELSE parse_float(m.s)

\* `values[key] = parse_int(match.group(1))` when the pattern matches
IntField(text, label, class) ==
    LET m == SearchLabel(text, label, class)
    IN  IF m = NoMatch THEN None ELSE parse_int(m.s)

\* A dict of parsed fields, or the exception the first failing field raised
\* (every conversion raises the same ValueError).
DictOrRaise(d) ==
    IF \E k \in DOMAIN d : IsRaise(d[k]) THEN Raise("ValueError") ELSE d

parse_shape(text) ==
    LET \* Shape:\s*([\d,]+)\s*rows
        heads == {i \in LabelHits(text, "Shape:", ClassDC) :
                    LET b == SkipWs(text, i + 1)
                        r == SkipWs(text, RunEnd(text, b, ClassDC) + 1)
                    IN  r <= Len(text) /\ text[r] = "rows"}
        \* .*?([\d,]+)\s*columns  after position r: the first "columns" that
        \* follows a run of [\d,] characters (and optional whitespace)
        Cols(r) == {c \in (r + 1)..Len(text) :
                      /\ text[c] = "columns"
                      /\ LET e == RunStart(text, c - 1, Whitespace) - 1
                         IN  e > r /\ text[e] \in ClassDC}
        ok == {i \in heads :
                 Cols(SkipWs(text, RunEnd(text, SkipWs(text, i + 1), ClassDC) + 1)) # {}}
    IN  IF ok = {} THEN Tuple(<<None, None>>)
        ELSE LET b == SkipWs(text, Min(ok) + 1)
                 e1 == RunEnd(text, b, ClassDC)
                 r == SkipWs(text, e1 + 1)
                 c == Min(Cols(r))
                 e2 == RunStart(text, c - 1, Whitespace) - 1
                 s2 == Max({RunStart(text, e2, ClassDC), r + 1})
                 rows == parse_int(SubSeq(text, b, e1))
                 cols == parse_int(SubSeq(text, s2, e2))
             IN  IF IsRaise(rows) THEN rows
                 ELSE IF IsRaise(cols) THEN cols
                 ELSE Tuple(<<rows, cols>>)

\* \((\d+)\)  after the label: digits closed by a parenthesis
ParenCount(text, label) ==
    LET hits == {i \in LabelHits(text, label, ClassD) :
                    LET e == RunEnd(text, i + 1, ClassD)
                    IN  e >= i + 1 /\ e < Len(text) /\ text[e + 1] = ")"}
    IN  IF hits = {} THEN None
        ELSE PyInt(SubSeq(text, Min(hits) + 1, RunEnd(text, Min(hits) + 1, ClassD)))

parse_feature_counts(text) ==
    Tuple(<<ParenCount(text, "Numerical features ("),
            ParenCount(text, "Categorical features (")>>)

parse_target_stats(text) ==
    DictOrRaise(
      [mean_saleprice |-> FloatField(text, "Mean:", ClassDCP),
       median_saleprice |-> FloatField(text, "Median:", ClassDCP),
       saleprice_skew |-> FloatField(text, "Skewness:", ClassDCP),
       saleprice_kurtosis |-> FloatField(text, "Kurtosis:", ClassDCP)])

parse_iqr_bounds(text) ==
    DictOrRaise(
      [q1 |-> FloatField(text, "Q1:", ClassDCP),
       q3 |-> FloatField(text, "Q3:", ClassDCP),
       iqr_value |-> FloatField(text, "IQR:", ClassDCP),
       iqr_lower_bound |-> FloatField(text, "Lower bound:", ClassDCP),
       iqr_upper_bound |-> FloatField(text, "Upper bound:", ClassDCP)])

parse_iqr_row_counts(text) ==
    DictOrRaise(
      [rows_before_iqr |->
           IntField(text, "Rows before IQR filtering:", ClassDC),
       rows_after_iqr |->
           IntField(text, "Rows after IQR filtering:", ClassDC),
       rows_removed_iqr |->
           IntField(text, "Rows removed as outliers:", ClassDC),
       rows_removed_pct_iqr |->
           FloatField(text, "% removed:", ClassDP)])

----------------------------------------------------------------------------
(* parse_size_to_bytes.  A unit is one word token; Upper gives its         *)
(* str.upper().                                                            *)

Upper(word) ==
    CASE word = "b" -> "B"
      [] word \in {"kb", "Kb", "kB"} -> "KB"
      [] word \in {"mb", "Mb", "mB"} -> "MB"
      [] word \in {"gb", "Gb", "gB"} -> "GB"
      [] word \in {"tb", "Tb", "tB"} -> "TB"
      [] word \in {"ib", "iB", "Ib"} -> "IB"
      [] word \in {"kib", "KiB", "Kib", "kiB"} -> "KIB"
      [] word \in {"mib", "MiB", "Mib", "miB"} -> "MIB"
      [] word \in {"gib", "GiB", "Gib", "giB"} -> "GIB"
      [] word \in {"tib", "TiB", "Tib", "tiB"} -> "TIB"
      [] OTHER -> word

\* The upper-case forms of the words  [KMGT]?i?B  matches under re.I
UnitPattern == {"B", "KB", "MB", "GB", "TB", "IB", "KIB", "MIB", "GIB", "TIB"}

factor_map ==
    [u \in {"B", "KIB", "MIB", "GIB", "KB", "MB", "GB"} |->
        CASE u = "B" -> 1
          [] u = "KIB" -> 1024
          [] u = "MIB" -> 1024 * 1024
          [] u = "GIB" -> 1024 * 1024 * 1024
          [] u = "KB" -> 1000
          [] u = "MB" -> 1000 * 1000
          [] u = "GB" -> 1000 * 1000 * 1000]

\* amount * factor is the exact product: the rounding of the binary
\* floating-point multiplication is not modelled.
parse_size_to_bytes(value) ==
    LET clean == Remove(Strip(value), ",")
        e == RunEnd(clean, 1, ClassDP)
        u == SkipWs(clean, e + 1)
    IN  IF ~(e >= 1 /\ u = Len(clean) /\ Upper(clean[u]) \in UnitPattern)
        THEN None
        ELSE LET amount == PyFloat(SubSeq(clean, 1, e))
                 unit == Upper(clean[u])
             IN  IF IsRaise(amount) THEN amount
                 ELSE IF unit \notin DOMAIN factor_map THEN None
                 ELSE FloatTimes(amount, factor_map[unit])

----------------------------------------------------------------------------
(* The table parsers.  str.splitlines() cuts the text at the "\n" tokens.  *)

RECURSIVE SplitLines(_)
SplitLines(text) ==
    IF text = <<>> THEN <<>>
    ELSE LET nl == {i \in 1..Len(text) : text[i] = "\n"}
         IN  IF nl = {} THEN <<text>>
             ELSE <<SubSeq(text, 1, Min(nl) - 1)>>
                      \o SplitLines(SubSeq(text, Min(nl) + 1, Len(text)))

\* The last whitespace-separated field of a stripped, non-empty line starts
\* here.
LastFieldStart(line) == RunStart(line, Len(line), {c \in Range(line) : c \notin Whitespace})

\* The whitespace-separated fields of a stripped line
RECURSIVE Fields(_)
Fields(line) ==
    IF line = <<>> THEN <<>>
    ELSE LET b == LastFieldStart(line)
         IN  Fields(RStrip(SubSeq(line, 1, b - 1)))
                 \o <<SubSeq(line, b, Len(line))>>

\* \d+
IsDigits(s) == s # <<>> /\ AllIn(s, Digits)
\* \d+(?:\.\d+)?
IsDecimal(s) ==
    LET e == RunEnd(s, 1, Digits)
    IN  /\ e >= 1
        /\ \/ e = Len(s)
           \/ /\ e < Len(s) /\ s[e + 1] = "."
              /\ IsDigits(SubSeq(s, e + 2, Len(s)))
\* -?\d+(?:\.\d+)?
IsSignedDecimal(s) ==
    IF s # <<>> /\ Head(s) = "-" THEN IsDecimal(Tail(s)) ELSE IsDecimal(s)
\* [\d,]+\.\d+
IsGroupedDecimal(s) ==
    LET e == RunEnd(s, 1, ClassDC)
    IN  /\ e >= 1 /\ e < Len(s) /\ s[e + 1] = "."
        /\ IsDigits(SubSeq(s, e + 2, Len(s)))
\* [A-Za-z0-9_]+ : name tokens are letters or digits
Punctuation == {",", ".", "-", ":", "(", ")", "[", "]", "'", "%", "%)"}
IsWord(s) == s # <<>> /\ \A i \in 1..Len(s) : s[i] \notin Punctuation \cup Whitespace

\* ^(.+?)\s+(-?\d+(?:\.\d+)?)$  on the stripped line: the last field is the
\* number, and what stands before the whitespace in front of it the feature.
CorrelationRow(line) ==
    LET b == LastFieldStart(line)
        name == RStrip(SubSeq(line, 1, b - 1))
        number == SubSeq(line, b, Len(line))
    IN  IF name # <<>> /\ IsSignedDecimal(number)
        THEN <<[feature |-> Strip(name), correlation |-> parse_float(number)]>>
        ELSE <<>>

RECURSIVE CorrelationRows(_)
CorrelationRows(lines) ==
    IF lines = <<>> THEN <<>>
    ELSE LET line == RStrip(Head(lines))
         IN  (IF line = <<>> \/ "Correlation with SalePrice" \in Range(line)
              THEN <<>> ELSE CorrelationRow(Strip(line)))
                 \o CorrelationRows(Tail(lines))

parse_correlation_table(text) == List(CorrelationRows(SplitLines(text)))

\* ^(\S+)\s+([\d,]+\.\d+)\s+([\d,]+\.\d+)\s+(\d+)$
NeighborhoodRow(line) ==
    LET f == Fields(line)
    IN  IF /\ Len(f) = 4 /\ IsGroupedDecimal(f[2]) /\ IsGroupedDecimal(f[3])
           /\ IsDigits(f[4])
        THEN <<[neighborhood |-> f[1],
                mean_saleprice |-> parse_float(f[2]),
                median_saleprice |-> parse_float(f[3]),
                count |-> PyInt(f[4])]>>
        ELSE <<>>

RECURSIVE NeighborhoodRows(_)
NeighborhoodRows(lines) ==
    IF lines = <<>> THEN <<>>
    ELSE LET line == Strip(Head(lines))
         IN  (IF line = <<>> \/ Head(line) \in {"mean", "Neighborhood"}
              THEN <<>> ELSE NeighborhoodRow(line))
                 \o NeighborhoodRows(Tail(lines))

\* (The numbers of a matching row always convert: [\d,]+\.\d+ holds a
\* digit after its one point.)
parse_neighborhood_table(text) == List(NeighborhoodRows(SplitLines(text)))

\* round(x, 2) of the quotient  count * 100 / rows : the quotient is rounded
\* to hundredths, half to even (the binary rounding of the float division
\* is not modelled).
RoundPct(count, rows) ==
    LET q == (count * 10000) \div rows
        r == (count * 10000) % rows
    IN  Float(IF 2 * r > rows \/ (2 * r = rows /\ q % 2 = 1) THEN q + 1 ELSE q, 2)

\* MissingRow that gives a percentage of zero where it has no denominator
MissingRowZeroPct(line, rows_after_iqr) ==
    LET f == Fields(line)
    IN  IF Len(f) = 2 /\ IsWord(f[1]) /\ IsDigits(f[2])
        THEN LET count == PyInt(f[2])
             IN  <<[feature |-> f[1],
                    missing_count |-> count,
                    missing_pct |->
                        IF rows_after_iqr # None /\ rows_after_iqr.v > 0
                        THEN RoundPct(count.v, rows_after_iqr.v)
                        ELSE Float(0, 0)]>>
        ELSE <<>>

\* ^([A-Za-z0-9_]+)\s+(\d+)$
MissingRow(line, rows_after_iqr) ==
    LET f == Fields(line)
    IN  IF Len(f) = 2 /\ IsWord(f[1]) /\ IsDigits(f[2])
        THEN LET count == PyInt(f[2])
             IN  <<[feature |-> f[1],
                    missing_count |-> count,
                    missing_pct |->
                        IF rows_after_iqr # None /\ rows_after_iqr.v > 0
                        THEN RoundPct(count.v, rows_after_iqr.v) ELSE None]>>
        ELSE <<>>

RECURSIVE MissingRows(_, _)
MissingRows(lines, rows_after_iqr) ==
    IF lines = <<>> THEN <<>>
    ELSE LET line == Strip(Head(lines))
         IN  (IF line = <<>> \/ Head(line) = "dtype:"
              THEN <<>> ELSE MissingRow(line, rows_after_iqr))
                 \o MissingRows(Tail(lines), rows_after_iqr)

parse_missing_table(text, rows_after_iqr) ==
    List(MissingRows(SplitLines(text), rows_after_iqr))

----------------------------------------------------------------------------
(* parse_driver_list.  The text is a sequence of the tokens  [ ] ( ) ,     *)
(* whitespace, quoted string literals, the digit 5 and the word None;      *)
(* ast.literal_eval is modelled on flat expressions of these tokens.       *)

\* The characters of a quoted string literal token
LitChars(tok) ==
    CASE tok = "'A'" -> <<"A">>
      [] tok = "'B'" -> <<"B">>
      [] tok = "'AB'" -> <<"A", "B">>
StringLits == {"'A'", "'B'", "'AB'"}

RECURSIVE ConcatLits(_)
ConcatLits(toks) ==
    IF toks = <<>> THEN <<>> ELSE LitChars(Head(toks)) \o ConcatLits(Tail(toks))

\* The comma-separated segments of a token sequence
RECURSIVE SplitCommas(_)
SplitCommas(toks) ==
    LET cs == {i \in 1..Len(toks) : toks[i] = ","}
    IN  IF cs = {} THEN <<toks>>
        ELSE <<SubSeq(toks, 1, Min(cs) - 1)>>
                 \o SplitCommas(SubSeq(toks, Min(cs) + 1, Len(toks)))

Malformed == [t |-> "malformed"]

\* The value of one operand: adjacent string literals are one string,
\* adjacent digits one number, None is None; anything else does not parse.
Operand(raw) ==
    LET toks == Strip(raw)
    IN  IF toks = <<>> THEN Malformed
        ELSE IF AllIn(toks, StringLits \cup Whitespace)
             THEN Str(ConcatLits(SelectSeq(toks, LAMBDA c : c \in StringLits)))
        ELSE IF AllIn(toks, Digits) THEN IntV(DigitsValue(toks))
        ELSE IF toks = <<"None">> THEN None
        ELSE Malformed

\* The operands of  a, b, c  (a trailing comma allowed) as a List, or
\* Malformed
Operands(inner) ==
    LET segs == SplitCommas(inner)
        n == IF Strip(segs[Len(segs)]) = <<>> /\ Len(segs) > 1
             THEN Len(segs) - 1 ELSE Len(segs)
    IN  IF \E i \in 1..n : Operand(segs[i]) = Malformed THEN Malformed
        ELSE List([i \in 1..n |-> Operand(segs[i])])

\* ast.literal_eval(stripped): a value, or Malformed for the ValueError /
\* SyntaxError of text that is no literal.
literal_eval(stripped) ==
    LET n == Len(stripped)
        inner == Strip(SubSeq(stripped, 2, n - 1))
        commas == "," \in Range(stripped)
    IN  IF n >= 2 /\ stripped[1] = "[" /\ stripped[n] = "]"
        THEN IF inner = <<>> THEN List(<<>>) ELSE Operands(inner)
        ELSE IF n >= 2 /\ stripped[1] = "(" /\ stripped[n] = ")"
        THEN IF inner = <<>> THEN Tuple(<<>>)
             ELSE IF Operands(inner) = Malformed THEN Malformed
             ELSE IF commas THEN Tuple(Operands(inner).items)
             ELSE Operands(inner).items[1]
        ELSE IF Operands(stripped) = Malformed THEN Malformed
        ELSE IF commas THEN Tuple(Operands(stripped).items)
        ELSE Operands(stripped).items[1]

\* str(n) for n >= 0
RECURSIVE IntStr(_)
IntStr(n) ==
    LET d == CHOOSE c \in Digits : DigitVal[c] = n % 10
    IN  IF n < 10 THEN <<d>> ELSE IntStr(n \div 10) \o <<d>>

\* str(item)
PyStr(item) ==
    CASE item.t = "str" -> item.s
      [] item.t = "int" -> IntStr(item.v)
      [] item.t = "None" -> <<"None">>

\* [str(item) for item in parsed]: a list or tuple gives its items, a str
\* its characters, and a value that is not iterable raises TypeError.
StrItems(parsed) ==
    CASE parsed.t \in {"list", "tuple"} ->
           List([i \in 1..Len(parsed.items) |-> PyStr(parsed.items[i])])
      [] parsed.t = "str" ->
           List([i \in 1..Len(parsed.s) |-> <<parsed.s[i]>>])
      [] OTHER -> Raise("TypeError")

parse_driver_list(text) ==
    LET stripped == Strip(text)
    IN  IF stripped = <<>> THEN List(<<>>)
        ELSE IF literal_eval(stripped) = Malformed THEN List(<<>>)
        ELSE StrItems(literal_eval(stripped))

----------------------------------------------------------------------------
(* The notebook.  A notebook is [cells |-> List of cells] (or NoKey for a  *)
(* document without "cells"); a cell is [outputs |-> its outputs]; an      *)
(* output is [output_type, text, data]: text is List(chunks) or NoKey,     *)
(* data is [t |-> "dict", plain, png] (each List(chunks) or NoKey) or      *)
(* NoKey.                                                                  *)

\* Characters outside \x00-\x7F
NonAscii == {"<U+2500>", "<U+00B2>"}

normalize_text(text) == SelectSeq(text, LAMBDA c : c \notin NonAscii)

RECURSIVE Join(_)
Join(chunks) == IF chunks = <<>> THEN <<>> ELSE Head(chunks) \o Join(Tail(chunks))

\* as_text of a list of strings (a plain string is a list of one chunk)
as_text(value) == Join(value.items)

get_cell(nb, index) ==
    IF nb.cells = NoKey THEN Raise("KeyError")
    ELSE IF index >= Len(nb.cells.items) THEN Raise("IndexError")
    ELSE nb.cells.items[index + 1]

\* The texts of the stream outputs of a cell, in order
RECURSIVE StreamChunks(_)
StreamChunks(outputs) ==
    IF outputs = <<>> THEN <<>>
    ELSE (IF Head(outputs).output_type = "stream"
          THEN <<IF Head(outputs).text = NoKey THEN <<>>
                 ELSE as_text(Head(outputs).text)>>
          ELSE <<>>) \o StreamChunks(Tail(outputs))

\* get_stream_text returning the text of the first stream output only
get_stream_text_first_only(cell) ==
    LET chunks == StreamChunks(cell.outputs)
    IN  normalize_text(IF chunks = <<>> THEN <<>> ELSE Head(chunks))
get_stream_text(cell) == normalize_text(Join(StreamChunks(cell.outputs)))

HasData(output, key) ==
    /\ output.data # NoKey
    /\ (IF key = "text/plain" THEN output.data.plain ELSE output.data.png) # NoKey

\* get_first_text_plain returning the last text/plain rendering
get_last_text_plain(cell) ==
    LET hits == {i \in 1..Len(cell.outputs) : HasData(cell.outputs[i], "text/plain")}
    IN  IF hits = {} THEN <<>>
        ELSE normalize_text(as_text(cell.outputs[Max(hits)].data.plain))
get_first_text_plain(cell) ==
    LET hits == {i \in 1..Len(cell.outputs) : HasData(cell.outputs[i], "text/plain")}
    IN  IF hits = {} THEN <<>>
        ELSE normalize_text(as_text(cell.outputs[Min(hits)].data.plain))

\* base64.b64decode: the payload is a sequence of four-character groups;
\* the groups "QUJD" and "REVG" decode to three bytes each, a short group
\* ("QUJ") is a payload of incorrect padding.
Bytes(b) == [t |-> "bytes", b |-> b]
b64decode(encoded) ==
    IF AllIn(encoded, {"QUJD", "REVG"})
    THEN Bytes([i \in 1..Len(encoded) |->
                  IF encoded[i] = "QUJD" THEN "ABC" ELSE "DEF"])
    ELSE Raise("binascii.Error")

extract_png_from_cell(cell) ==
    LET hits == {i \in 1..Len(cell.outputs) : HasData(cell.outputs[i], "image/png")}
    IN  IF hits = {} THEN None
        ELSE b64decode(Remove(as_text(cell.outputs[Min(hits)].data.png), "\n"))

----------------------------------------------------------------------------
(* build_metrics.                                                          *)

\* The first exception among the values of a sequence, or None
FirstRaise(vals) ==
    LET bad == {i \in 1..Len(vals) : IsRaise(vals[i])}
    IN  IF bad = {} THEN None ELSE vals[Min(bad)]

\* corr_by_feature.get(feature): the dict comprehension keeps, for a feature
\* of several rows, the correlation of the last one.
CorrLookup(rows, feature) ==
    LET hits == {i \in 1..Len(rows) : rows[i].feature = feature}
    IN  IF hits = {} THEN None ELSE rows[Max(hits)].correlation

\* top_driver_details that leaves out the drivers the table does not hold
TopDriverDetailsDropping(top_drivers, top_correlations) ==
    LET all == [i \in 1..Len(top_drivers) |->
                   [feature |-> top_drivers[i],
                    correlation |-> CorrLookup(top_correlations, top_drivers[i])]]
    IN  SelectSeq(all, LAMBDA d : d.correlation # None)
TopDriverDetails(top_drivers, top_correlations) ==
    [i \in 1..Len(top_drivers) |->
        [feature |-> top_drivers[i],
         correlation |-> CorrLookup(top_correlations, top_drivers[i])]]

ManagerialSummary ==
    [top_drivers_plain_english |->
         <<"Quality, living area, and utility space are the strongest value levers.",
           "Log transform stabilizes SalePrice distribution for modeling.",
           "Neighborhood premium effects are strong and interpretable.">>,
     risks |->
         <<"High missing-rate fields often indicate absence of amenity, not random missingness.",
           "Rare category segments can overfit if not regularized.",
           "Untrimmed outliers can skew linear relationships.">>,
     next_steps |->
         <<"Engineer total space and age-based features.",
           "Encode none/absence categories explicitly for categorical fields.",
           "Benchmark regularized linear models, then compare with tree ensembles.">>]

\* The cell positions build_metrics reads, in the order it reads them
MetricCells == <<7, 11, 13, 21, 23, 33, 35, 46, 47, 27>>

\* The dict build_metrics returns, given the values of the field parsers in
\* the order it calls them, or the first exception among them
MetricsRecord(parsed, missing_text, charts, profile, now) ==
        LET shape == parsed[1]
            counts == parsed[2]
            target_stats == parsed[3]
            iqr_bounds == parsed[4]
            iqr_rows == parsed[5]
            top_correlations == parsed[6]
            top_drivers == parsed[7]
            top_neighborhoods == parsed[8]
            top_neighborhood_single == parsed[9]
        IN  IF FirstRaise(parsed) # None THEN FirstRaise(parsed)
            ELSE
            [meta |->
                 [generated_at_utc |-> now,
                  source_notebook |-> "House-Price.ipynb",
                  source_note |->
                      "Values and chart outputs extracted from executed notebook cells.",
                  source_profile |->
                      IF profile # None THEN profile.meta.source_file ELSE None],
             summary |->
                 [total_rows |-> shape.items[1],
                  total_columns |-> shape.items[2],
                  numeric_features |-> counts.items[1],
                  categorical_features |-> counts.items[2],
                  mean_saleprice |-> target_stats.mean_saleprice,
                  median_saleprice |-> target_stats.median_saleprice,
                  saleprice_skew |-> target_stats.saleprice_skew,
                  saleprice_kurtosis |-> target_stats.saleprice_kurtosis,
                  q1 |-> iqr_bounds.q1,
                  q3 |-> iqr_bounds.q3,
                  iqr_value |-> iqr_bounds.iqr_value,
                  iqr_lower_bound |-> iqr_bounds.iqr_lower_bound,
                  iqr_upper_bound |-> iqr_bounds.iqr_upper_bound,
                  rows_before_iqr |-> iqr_rows.rows_before_iqr,
                  rows_after_iqr |-> iqr_rows.rows_after_iqr,
                  rows_removed_iqr |-> iqr_rows.rows_removed_iqr,
                  rows_removed_pct_iqr |-> iqr_rows.rows_removed_pct_iqr],
             top_correlations |-> top_correlations.items,
             top_drivers |->
                 TopDriverDetails(top_drivers.items, top_correlations.items),
             top_neighborhoods |-> top_neighborhoods.items,
             top_neighborhood |->
                 IF top_neighborhood_single.items # <<>>
                 THEN top_neighborhood_single.items[1] ELSE None,
             top_missing_features |->
                 parse_missing_table(missing_text,
                                     iqr_rows.rows_after_iqr).items,
             profile_overview |-> profile,
             managerial_summary |-> ManagerialSummary,
             chart_files |-> charts]

\* build_metrics, given the cells at MetricCells
MetricsOfCells(cells, charts, profile, now) ==
    IF FirstRaise(cells) # None THEN FirstRaise(cells)
    ELSE MetricsRecord(
           <<parse_shape(get_stream_text(cells[1])),
             parse_feature_counts(get_stream_text(cells[2])),
             parse_target_stats(get_stream_text(cells[3])),
             parse_iqr_bounds(get_stream_text(cells[4])),
             parse_iqr_row_counts(get_stream_text(cells[5])),
             parse_correlation_table(get_first_text_plain(cells[6])),
             parse_driver_list(get_first_text_plain(cells[7])),
             parse_neighborhood_table(get_first_text_plain(cells[8])),
             parse_neighborhood_table(get_first_text_plain(cells[9]))>>,
             get_first_text_plain(cells[10]),
             charts, profile, now)

build_metrics(nb, charts, profile, now) ==
    MetricsOfCells([i \in 1..Len(MetricCells) |-> get_cell(nb, MetricCells[i])],
                   charts, profile, now)

----------------------------------------------------------------------------
(* Sample notebooks: the outputs an executed House-Price.ipynb holds at    *)
(* the positions the script reads.                                         *)

StreamOut(text) ==
    [output_type |-> "stream", text |-> List(<<text>>), data |-> NoKey]
PlainOut(text) ==
    [output_type |-> "execute_result", text |-> NoKey,
     data |-> [t |-> "dict", plain |-> List(<<text>>), png |-> NoKey]]
PngOut(payload) ==
    [output_type |-> "display_data", text |-> NoKey,
     data |-> [t |-> "dict", plain |-> List(<<<<"<Figure>">>>>),
               png |-> List(<<payload>>)]]

\* The keys of CHART_CELL_MAP, in the order of the dict
ChartCells == <<15, 17, 18, 25, 29, 31, 37, 39, 41, 43, 48>>
ChartNames ==
    <<"saleprice_distribution", "qq_raw_vs_log", "saleprice_log_distribution",
      "saleprice_iqr_boxplots", "missingness_heatmap_top20",
      "correlation_heatmap_full", "top3_scatter_raw", "top3_scatter_log",
      "overallqual_vs_saleprice", "overallqual_vs_log_saleprice",
      "top15_neighborhood_mean">>

Cell(outputs) == [outputs |-> outputs]

\* The outputs of cell `index` of a completely executed notebook
SampleOutputs(index) ==
    CASE index = 7 ->
           <<StreamOut(<<"Shape:", " ", "1", ",", "2", " ", "rows", ",", " ",
                         "8", " ", "columns", "\n">>)>>
      [] index = 11 ->
           <<StreamOut(<<"Numerical features (", "3", ")", "\n">>),
             StreamOut(<<"Categorical features (", "4", ")", "\n">>)>>
      [] index = 13 ->
           <<StreamOut(<<"Mean:", " ", "1", ",", "2", ".", "5", "\n",
                         "Median:", " ", "1", "1", "\n",
                         "Skewness:", " ", "1", ".", "8", "\n",
                         "Kurtosis:", " ", "6", ".", "5", "\n">>)>>
      [] index = 21 ->
           <<StreamOut(<<"Q1:", " ", "9", "\n", "Q3:", " ", "1", "5", "\n",
                         "IQR:", " ", "6", "\n",
                         "Lower bound:", " ", "0", ".", "5", "\n",
                         "Upper bound:", " ", "2", "4", "\n">>)>>
      [] index = 23 ->
           <<StreamOut(<<"Rows before IQR filtering:", " ", "1", "2", "\n",
                         "Rows after IQR filtering:", " ", "8", "\n",
                         "Rows removed as outliers:", " ", "4", "\n",
                         "% removed:", " ", "3", "3", ".", "3", "3", "\n">>)>>
      [] index = 27 ->
           <<PlainOut(<<"PoolQC", " ", "7", "\n", "Alley", " ", "3", "\n",
                        "dtype:", " ", "int64">>)>>
      [] index = 33 ->
           <<PlainOut(<<"A", " ", "0", ".", "8", "\n", "B", " ", "0", ".", "7",
                        "\n", "Name:", " ", "SalePrice">>)>>
      [] index = 35 ->
           <<PlainOut(<<"[", "'A'", ",", " ", "'B'", "]">>)>>
      [] index \in {46, 47} ->
           <<PlainOut(<<"mean", " ", "median", " ", "count", "\n",
                        "Neighborhood", "\n",
                        "NoRidge", " ", "3", ",", "1", ".", "5", " ",
                        "3", ".", "0", " ", "4">>)>>
      [] index \in Range(ChartCells) -> <<PngOut(<<"QUJD">>)>>
      [] OTHER -> <<>>

SampleCell(index) == Cell(SampleOutputs(index))

\* The number of cells of the executed notebook: positions 0..48 are read
NotebookCells == 49

----------------------------------------------------------------------------
(* The profile report.  A report document is given by what the markup      *)
(* patterns of parse_profile_report, parse_table_rows_from_block and       *)
(* parse_alert_rows recover from its HTML: [name, report_date, stats_raw,  *)
(* var_types_raw, alert_count, alert_rows], an alert row being [feature,   *)
(* message, type] with the message a token sequence.                       *)

\* float < float
FloatLess(f, g) ==
    LET a == IF f.e2 < g.e2 THEN f.e2 ELSE g.e2
        b == IF f.e5 < g.e5 THEN f.e5 ELSE g.e5
    IN  f.m * Pow(2, f.e2 - a) * Pow(5, f.e5 - b)
            < g.m * Pow(2, g.e2 - a) * Pow(5, g.e5 - b)

\* The positions where  has\s+([\d,]+)\s+\(([\d\.]+)%\)\s+<tail>  matches
CountPctHits(msg, tail) ==
    {i \in 1..Len(msg) :
        /\ msg[i] = "has"
        /\ LET c == SkipWs(msg, i + 1)
               ce == RunEnd(msg, c, ClassDC)
               p == SkipWs(msg, ce + 1)
               pe == RunEnd(msg, p + 1, ClassDP)
               t == SkipWs(msg, pe + 2)
           IN  /\ c > i + 1 /\ ce >= c /\ p > ce + 1
               /\ p <= Len(msg) /\ msg[p] = "("
               /\ pe >= p + 1
               /\ pe + 1 <= Len(msg) /\ msg[pe + 1] = "%)"
               /\ t > pe + 2 /\ t <= Len(msg) /\ msg[t] = tail}

\* The alert with the count and the percentage of its message, for the
\* sub-parser of `type` whose pattern ends in `tail`
CountPctAlert(alert, type, tail, count_key, pct_key) ==
    LET hits == CountPctHits(alert.message, tail)
    IN  IF alert.type # type \/ hits = {} THEN None
        ELSE LET c == SkipWs(alert.message, Min(hits) + 1)
                 ce == RunEnd(alert.message, c, ClassDC)
                 p == SkipWs(alert.message, ce + 1)
                 pe == RunEnd(alert.message, p + 1, ClassDP)
                 count == parse_int(SubSeq(alert.message, c, ce))
                 pct == parse_float(SubSeq(alert.message, p + 1, pe))
             IN  IF IsRaise(count) THEN count
                 ELSE IF IsRaise(pct) THEN pct
                 ELSE [feature |-> alert.feature, count_key |-> count_key,
                       count |-> count, pct_key |-> pct_key, pct |-> pct,
                       message |-> alert.message]

parse_missing_alert(alert) ==
    CountPctAlert(alert, "Missing", "missing values", "missing_count", "missing_pct")

parse_zero_alert(alert) ==
    CountPctAlert(alert, "Zeros", "zeros", "zero_count", "zero_pct")

\* \(([\d\.]+)%\)
parse_imbalance_alert(alert) ==
    LET msg == alert.message
        hits == {i \in 1..Len(msg) :
                   /\ msg[i] = "("
                   /\ RunEnd(msg, i + 1, ClassDP) >= i + 1
                   /\ RunEnd(msg, i + 1, ClassDP) < Len(msg)
                   /\ msg[RunEnd(msg, i + 1, ClassDP) + 1] = "%)"}
    IN  IF alert.type # "Imbalance" \/ hits = {} THEN None
        ELSE LET pct == parse_float(SubSeq(msg, Min(hits) + 1,
                                           RunEnd(msg, Min(hits) + 1, ClassDP)))
             IN  IF IsRaise(pct) THEN pct
                 ELSE [feature |-> alert.feature, pct_key |-> "dominant_pct",
                       pct |-> pct, message |-> alert.message]

\* The sub-parser of a category
ParseAlert(category, alert) ==
    CASE category = "Missing" -> parse_missing_alert(alert)
      [] category = "Zeros" -> parse_zero_alert(alert)
      [] category = "Imbalance" -> parse_imbalance_alert(alert)

\* [row for row in (parse(a) for a in alert_rows) if row]
RECURSIVE ParsedAlerts(_, _)
ParsedAlerts(category, alert_rows) ==
    IF alert_rows = <<>> THEN <<>>
    ELSE LET row == ParseAlert(category, Head(alert_rows))
         IN  (IF row = None THEN <<>> ELSE <<row>>)
                 \o ParsedAlerts(category, Tail(alert_rows))

\* list.sort(key=pct, reverse=True): a stable sort, rows of equal
\* percentage keep their order.  `row` goes behind every row whose
\* percentage is not smaller.
RECURSIVE InsertDesc(_, _)
InsertDesc(sorted, row) ==
    IF sorted # <<>> /\ ~FloatLess(Head(sorted).pct, row.pct)
    THEN <<Head(sorted)>> \o InsertDesc(Tail(sorted), row)
    ELSE <<row>> \o sorted

\* An insertion in front of the rows of equal percentage (the order of a
\* sort that is reversed afterwards)
RECURSIVE InsertDescFront(_, _)
InsertDescFront(sorted, row) ==
    IF sorted # <<>> /\ FloatLess(row.pct, Head(sorted).pct)
    THEN <<Head(sorted)>> \o InsertDescFront(Tail(sorted), row)
    ELSE <<row>> \o sorted

RECURSIVE SortDescReversingTies(_)
SortDescReversingTies(rows) ==
    IF rows = <<>> THEN <<>>
    ELSE InsertDescFront(SortDescReversingTies(SubSeq(rows, 1, Len(rows) - 1)),
                         rows[Len(rows)])
RECURSIVE SortDesc(_)
SortDesc(rows) ==
    IF rows = <<>> THEN <<>>
    ELSE InsertDesc(SortDesc(SubSeq(rows, 1, Len(rows) - 1)), rows[Len(rows)])

\* The length of the ranked alert lists: rows[:15]
TopAlerts == 15
Prefix(rows, n) == SubSeq(rows, 1, IF Len(rows) < n THEN Len(rows) ELSE n)

\* dict(Counter(alert["type"] ...)): the types in the order of their first
\* alert, each with the number of its alerts
RECURSIVE TypeCounts(_, _)
TypeCounts(alert_rows, seen) ==
    IF alert_rows = <<>> THEN <<>>
    ELSE LET type == Head(alert_rows).type
         IN  (IF type \in seen THEN <<>>
              ELSE <<[type |-> type,
                      count |-> Cardinality({i \in 1..Len(alert_rows) :
                                                alert_rows[i].type = type})]>>)
                 \o TypeCounts(Tail(alert_rows), seen \cup {type})

\* stats_raw.get(key, "")
GetOrEmpty(value) == IF value = NoKey THEN <<>> ELSE value.s
\* stats_raw.get(key)
GetOrNone(value) == IF value = NoKey THEN None ELSE value

\* The value of parse_profile_report, given the alert lists before sorting
\* and the two sizes in bytes: the first exception among them, or the dict
ProfileRecord(doc, missing, zero, imbalance, size, record_size) ==
        IF FirstRaise(missing) # None THEN FirstRaise(missing)
        ELSE IF FirstRaise(zero) # None THEN FirstRaise(zero)
        ELSE IF FirstRaise(imbalance) # None THEN FirstRaise(imbalance)
        ELSE IF IsRaise(size) THEN size
        ELSE IF IsRaise(record_size) THEN record_size
        ELSE
        [meta |-> [source_file |-> doc.name,
                   report_generated_at |-> doc.report_date],
         dataset_statistics |->
             [number_of_variables |->
                  parse_number(GetOrEmpty(doc.stats_raw.number_of_variables)),
              number_of_observations |->
                  parse_number(GetOrEmpty(doc.stats_raw.number_of_observations)),
              missing_cells |->
                  parse_number(GetOrEmpty(doc.stats_raw.missing_cells)),
              missing_cells_pct |->
                  parse_number(
                      Remove(GetOrEmpty(doc.stats_raw.missing_cells_pct), "%")),
              total_memory_size_text |->
                  GetOrNone(doc.stats_raw.total_size_in_memory),
              total_memory_size_bytes |-> size,
              average_record_size_text |->
                  GetOrNone(doc.stats_raw.average_record_size_in_memory),
              average_record_size_bytes |-> record_size],
         variable_types |->
             [numeric |-> parse_number(GetOrEmpty(doc.var_types_raw.numeric)),
              categorical |->
                  parse_number(GetOrEmpty(doc.var_types_raw.categorical)),
              boolean |-> parse_number(GetOrEmpty(doc.var_types_raw.boolean))],
         alert_count |-> doc.alert_count,
         alert_type_counts |-> TypeCounts(doc.alert_rows, {}),
         top_missing_alerts |-> Prefix(SortDesc(missing), TopAlerts),
         top_zero_alerts |-> Prefix(SortDesc(zero), TopAlerts),
         top_imbalance_alerts |-> Prefix(SortDesc(imbalance), TopAlerts),
         alerts |-> doc.alert_rows]

parse_profile_report(doc) ==
    ProfileRecord(doc,
        ParsedAlerts("Missing", doc.alert_rows),
        ParsedAlerts("Zeros", doc.alert_rows),
        ParsedAlerts("Imbalance", doc.alert_rows),
        parse_size_to_bytes(GetOrEmpty(doc.stats_raw.total_size_in_memory)),
        parse_size_to_bytes(
            GetOrEmpty(doc.stats_raw.average_record_size_in_memory)))

\* Sample reports: the alert at position k is about feature F<k>
FeatureName(k) == <<"F">> \o IntStr(k)

AlertTable(base, reps) ==
    [k \in 1..(Len(base) * reps) |->
        LET kind == base[((k - 1) % Len(base)) + 1]
        IN  [feature |-> FeatureName(k), message |-> kind.message,
             type |-> kind.type]]

SampleStats ==
    [number_of_variables |-> Str(<<"8", "1">>),
     number_of_observations |-> Str(<<"1", ",", "4", "6", "0">>),
     missing_cells |-> Str(<<"6", "9", "6">>),
     missing_cells_pct |-> Str(<<"5", ".", "9", "%">>),
     total_size_in_memory |-> Str(<<"9", "2", "4", ".", "0", " ", "KiB">>),
     average_record_size_in_memory |-> NoKey]
SampleVarTypes ==
    [numeric |-> Str(<<"3", "8">>), categorical |-> Str(<<"4", "3">>),
     boolean |-> NoKey]

ReportWith(name, alert_rows) ==
    [name |-> name, report_date |-> Str(<<"2025-01-01">>),
     stats_raw |-> SampleStats, var_types_raw |-> SampleVarTypes,
     alert_count |-> IntV(Len(alert_rows)), alert_rows |-> alert_rows]

----------------------------------------------------------------------------
(* JSON.  The record of build_metrics as the tree json sees: None, IntV,   *)
(* Float, Str and List as above, and Dict(pairs) for a dict, its keys in   *)
(* insertion order.  A JSON text is a sequence of tokens: Lit(s) for the   *)
(* characters s, StrTok(s) for the quoted and escaped string s, Num(v) for *)
(* the repr of the number v, Indent(n) for n spaces.                       *)

Pair(key, value) == [key |-> key, value |-> value]
Dict(pairs) == [t |-> "dict", pairs |-> pairs]

Lit(s) == [lit |-> s]
StrTok(s) == [str |-> s]
Num(v) == [num |-> v]
Indent(n) == [spaces |-> n]

CorrelationJson(row) ==
    Dict(<<Pair("feature", Str(row.feature)),
           Pair("correlation", row.correlation)>>)

NeighborhoodJson(row) ==
    Dict(<<Pair("neighborhood", Str(row.neighborhood)),
           Pair("mean_saleprice", row.mean_saleprice),
           Pair("median_saleprice", row.median_saleprice),
           Pair("count", row.count)>>)

MissingJson(row) ==
    Dict(<<Pair("feature", Str(row.feature)),
           Pair("missing_count", row.missing_count),
           Pair("missing_pct", row.missing_pct)>>)

CountPctJson(row) ==
    Dict(<<Pair("feature", Str(row.feature)),
           Pair(row.count_key, row.count),
           Pair(row.pct_key, row.pct),
           Pair("message", Str(row.message))>>)

ImbalanceJson(row) ==
    Dict(<<Pair("feature", Str(row.feature)),
           Pair(row.pct_key, row.pct),
           Pair("message", Str(row.message))>>)

AlertJson(row) ==
    Dict(<<Pair("feature", Str(row.feature)),
           Pair("message", Str(row.message)),
           Pair("type", Str(<<row.type>>))>>)

SummaryJson(summary) ==
    Dict(<<Pair("total_rows", summary.total_rows),
           Pair("total_columns", summary.total_columns),
           Pair("numeric_features", summary.numeric_features),
           Pair("categorical_features", summary.categorical_features),
           Pair("mean_saleprice", summary.mean_saleprice),
           Pair("median_saleprice", summary.median_saleprice),
           Pair("saleprice_skew", summary.saleprice_skew),
           Pair("saleprice_kurtosis", summary.saleprice_kurtosis),
           Pair("q1", summary.q1),
           Pair("q3", summary.q3),
           Pair("iqr_value", summary.iqr_value),
           Pair("iqr_lower_bound", summary.iqr_lower_bound),
           Pair("iqr_upper_bound", summary.iqr_upper_bound),
           Pair("rows_before_iqr", summary.rows_before_iqr),
           Pair("rows_after_iqr", summary.rows_after_iqr),
           Pair("rows_removed_iqr", summary.rows_removed_iqr),
           Pair("rows_removed_pct_iqr", summary.rows_removed_pct_iqr)>>)

ProfileJson(profile) ==
    Dict(<<Pair("meta",
                Dict(<<Pair("source_file", Str(<<profile.meta.source_file>>)),
                       Pair("report_generated_at",
                            profile.meta.report_generated_at)>>)),
           Pair("dataset_statistics",
                LET st == profile.dataset_statistics
                IN  Dict(<<Pair("number_of_variables", st.number_of_variables),
                           Pair("number_of_observations", st.number_of_observations),
                           Pair("missing_cells", st.missing_cells),
                           Pair("missing_cells_pct", st.missing_cells_pct),
                           Pair("total_memory_size_text", st.total_memory_size_text),
                           Pair("total_memory_size_bytes", st.total_memory_size_bytes),
                           Pair("average_record_size_text", st.average_record_size_text),
                           Pair("average_record_size_bytes",
                                st.average_record_size_bytes)>>)),
           Pair("variable_types",
                Dict(<<Pair("numeric", profile.variable_types.numeric),
                       Pair("categorical", profile.variable_types.categorical),
                       Pair("boolean", profile.variable_types.boolean)>>)),
           Pair("alert_count", profile.alert_count),
           Pair("alert_type_counts",
                Dict([i \in 1..Len(profile.alert_type_counts) |->
                        Pair(profile.alert_type_counts[i].type,
                             IntV(profile.alert_type_counts[i].count))])),
           Pair("top_missing_alerts",
                List([i \in 1..Len(profile.top_missing_alerts) |->
                        CountPctJson(profile.top_missing_alerts[i])])),
           Pair("top_zero_alerts",
                List([i \in 1..Len(profile.top_zero_alerts) |->
                        CountPctJson(profile.top_zero_alerts[i])])),
           Pair("top_imbalance_alerts",
                List([i \in 1..Len(profile.top_imbalance_alerts) |->
                        ImbalanceJson(profile.top_imbalance_alerts[i])])),
           Pair("alerts",
                List([i \in 1..Len(profile.alerts) |->
                        AlertJson(profile.alerts[i])]))>>)

StrList(strings) == List([i \in 1..Len(strings) |-> Str(<<strings[i]>>)])

\* The dict `metrics` of build_metrics
MetricsJson(m) ==
    Dict(<<Pair("meta",
                Dict(<<Pair("generated_at_utc", Str(<<m.meta.generated_at_utc>>)),
                       Pair("source_notebook", Str(<<m.meta.source_notebook>>)),
                       Pair("source_note", Str(<<m.meta.source_note>>)),
                       Pair("source_profile",
                            IF m.profile_overview = None THEN None
                            ELSE Str(<<m.meta.source_profile>>))>>)),
           Pair("summary", SummaryJson(m.summary)),
           Pair("top_correlations",
                List([i \in 1..Len(m.top_correlations) |->
                        CorrelationJson(m.top_correlations[i])])),
           Pair("top_drivers",
                List([i \in 1..Len(m.top_drivers) |->
                        CorrelationJson(m.top_drivers[i])])),
           Pair("top_neighborhoods",
                List([i \in 1..Len(m.top_neighborhoods) |->
                        NeighborhoodJson(m.top_neighborhoods[i])])),
           Pair("top_neighborhood",
                IF m.top_neighborhood = None THEN None
                ELSE NeighborhoodJson(m.top_neighborhood)),
           Pair("top_missing_features",
                List([i \in 1..Len(m.top_missing_features) |->
                        MissingJson(m.top_missing_features[i])])),
           Pair("profile_overview",
                IF m.profile_overview = None THEN None
                ELSE ProfileJson(m.profile_overview)),
           Pair("managerial_summary",
                Dict(<<Pair("top_drivers_plain_english",
                            StrList(m.managerial_summary.top_drivers_plain_english)),
                       Pair("risks", StrList(m.managerial_summary.risks)),
                       Pair("next_steps",
                            StrList(m.managerial_summary.next_steps))>>)),
           Pair("chart_files",
                Dict([i \in 1..Len(m.chart_files.items) |->
                        Pair(m.chart_files.items[i].key,
                             Str(m.chart_files.items[i].value))]))>>)

\* JSONEncoder(indent=indent).iterencode(value), its chunks in order; with
\* an indent, items are separated by "," and keys from values by ": "
RECURSIVE Encode(_, _, _)
RECURSIVE EncodeItems(_, _, _, _)
RECURSIVE EncodePairs(_, _, _, _)
Encode(value, indent, level) ==
    CASE value.t = "None" -> <<Lit("null")>>
      [] value.t \in {"int", "float"} -> <<Num(value)>>
      [] value.t = "str" -> <<StrTok(value.s)>>
      [] value.t = "list" ->
           IF value.items = <<>> THEN <<Lit("[]")>>
           ELSE <<Lit("[")>> \o EncodeItems(value.items, indent, level + 1, 1)
                    \o <<Lit("\n"), Indent(indent * level), Lit("]")>>
      [] value.t = "dict" ->
           IF value.pairs = <<>> THEN <<Lit("{}")>>
           ELSE <<Lit("{")>> \o EncodePairs(value.pairs, indent, level + 1, 1)
                    \o <<Lit("\n"), Indent(indent * level), Lit("}")>>
EncodeItems(items, indent, level, i) ==
    IF i > Len(items) THEN <<>>
    ELSE (IF i > 1 THEN <<Lit(",")>> ELSE <<>>)
             \o <<Lit("\n"), Indent(indent * level)>>
             \o Encode(items[i], indent, level)
             \o EncodeItems(items, indent, level, i + 1)
EncodePairs(pairs, indent, level, i) ==
    IF i > Len(pairs) THEN <<>>
    ELSE (IF i > 1 THEN <<Lit(",")>> ELSE <<>>)
             \o <<Lit("\n"), Indent(indent * level)>>
             \o <<StrTok(<<pairs[i].key>>), Lit(": ")>>
             \o Encode(pairs[i].value, indent, level)
             \o EncodePairs(pairs, indent, level, i + 1)

\* The indent write_metrics asks for
JsonIndent == 2

\* json.dumps(value) with neither indent nor line breaks
json_dumps_compact(value) ==
    SelectSeq(Encode(value, JsonIndent, 0),
              LAMBDA tok : tok # Lit("\n") /\ DOMAIN tok # {"spaces"})
\* json.dumps(value, indent=2): the chunks joined
json_dumps(value) == Encode(value, JsonIndent, 0)

\* file.write(text) on the content of an open file
FileWrite(content, text) == content \o text

\* json.dump(value, file, indent=2): file.write of every chunk of the
\* encoder in turn, which leaves the chunks in their order behind `content`
json_dump(value, content) == FileWrite(content, Encode(value, JsonIndent, 0))

\* The content of a text file
Text(tokens) == [t |-> "text", tokens |-> tokens]

\* write_metrics: the two files it leaves, both opened with "w"
write_metrics(metrics_record) ==
    [metrics_json |-> Text(json_dump(MetricsJson(metrics_record), <<>>)),
     metrics_js |->
         Text(FileWrite(
                  FileWrite(FileWrite(<<>>, <<Lit("window.dashboardMetrics = ")>>),
                            json_dumps(MetricsJson(metrics_record))),
                  <<Lit(";\n")>>))]

----------------------------------------------------------------------------
(* main.  The file system is fs = [nb, profiles, mockup, dirs, charts,     *)
(* metrics_json, metrics_js]: the notebook file, the two candidate profile *)
(* files, whether image.png exists, whether the output directories exist,  *)
(* the files of web/assets/charts by stem, and the two metrics files.  A   *)
(* file is Absent or its content.                                          *)

Absent == [t |-> "absent"]
InvalidJson == [t |-> "invalid json"]
JsonText(doc) == [t |-> "json text", doc |-> doc]

\* json.load of the content of a file
json_load(content) ==
    IF content = InvalidJson THEN Raise("JSONDecodeError") ELSE content.doc

\* PROFILE_PATH_CANDIDATES, by file name
ProfileNames == <<"ames_house_prices_profile.html", "house_profile_compact.html">>

Path(i) == [t |-> "path", index |-> i, name |-> ProfileNames[i]]

\* find_profile_path preferring the last existing candidate
find_last_profile_path(files) ==
    LET existing == {i \in 1..Len(ProfileNames) : files.profiles[i] # Absent}
    IN  IF existing = {} THEN None ELSE Path(Max(existing))
find_profile_path(files) ==
    LET existing == {i \in 1..Len(ProfileNames) : files.profiles[i] # Absent}
    IN  IF existing = {} THEN None ELSE Path(Min(existing))

ChartFile(stem) == <<"assets/charts/", stem, ".png">>
MockupBytes == Bytes(<<"mockup">>)

\* The loop of export_charts from the i-th key of CHART_CELL_MAP on:
\* the files written so far and the exception that ended the loop, if any
RECURSIVE ExportFrom(_, _, _)
ExportFrom(nb, i, written) ==
    IF i > Len(ChartCells) THEN [written |-> written, raised |-> None]
    ELSE LET cell == get_cell(nb, ChartCells[i])
         IN  IF IsRaise(cell) THEN [written |-> written, raised |-> cell]
             ELSE LET image_bytes == extract_png_from_cell(cell)
                  IN  IF IsRaise(image_bytes)
                      THEN [written |-> written, raised |-> image_bytes]
                      ELSE IF image_bytes = None
                      THEN ExportFrom(nb, i + 1, written)
                      ELSE ExportFrom(nb, i + 1,
                               Append(written, [stem |-> ChartNames[i],
                                                bytes |-> image_bytes]))

\* export_charts: the chart files it leaves and what it returns or raises
export_charts(nb, files) ==
    LET loop == ExportFrom(nb, 1, <<>>)
        copied == IF loop.raised = None /\ files.mockup
                  THEN Append(loop.written, [stem |-> "dashboard_mockup",
                                             bytes |-> MockupBytes])
                  ELSE loop.written
    IN  [charts |->
             [stem \in DOMAIN files.charts |->
                 LET hits == {k \in 1..Len(copied) : copied[k].stem = stem}
                 IN  IF hits = {} THEN files.charts[stem]
                     ELSE copied[Max(hits)].bytes],
         result |->
             IF loop.raised # None THEN loop.raised
             ELSE List([k \in 1..Len(copied) |->
                          [key |-> copied[k].stem,
                           value |-> ChartFile(copied[k].stem)]])]

\* datetime.now(timezone.utc).isoformat() at the time of build_metrics
Clock == {"2026-01-01T00:00:00+00:00", "2026-01-02T00:00:00+00:00"}

\* --- the files main may find
VariantCell(variant, index) ==
    CASE variant = "executed" -> SampleCell(index)
      [] variant = "cleared" -> Cell(<<>>)
      [] variant = "malformed number" ->
           IF index = 13
           THEN Cell(<<StreamOut(<<"Mean:", " ", "1", ".", "2", ".", "3", "\n">>)>>)
           ELSE SampleCell(index)
      [] variant = "truncated image" ->
           IF index = 17 THEN Cell(<<PngOut(<<"QUJ">>)>>) ELSE SampleCell(index)

NotebookLens == {0, 8, 16, 48, 49, 50}
Variants == {"executed", "cleared", "malformed number", "truncated image"}

NotebookOf(n, variant) ==
    [cells |-> List([k \in 1..n |-> VariantCell(variant, k - 1)])]

NotebookFiles ==
    {Absent, InvalidJson, JsonText([cells |-> NoKey])}
        \cup {JsonText(NotebookOf(n, variant)) :
                 n \in NotebookLens, variant \in Variants}

SampleAlerts ==
    <<[type |-> "Missing",
       message |-> <<"has", " ", "1", " ", "(", "2", ".", "5", "%)", " ", "missing values">>],
      [type |-> "Zeros",
       message |-> <<"has", " ", "5", " ", "(", "9", ".", "1", "%)", " ", "zeros">>]>>
MalformedAlerts ==
    <<[type |-> "Missing",
       message |-> <<"has", " ", "1", " ", "(", "1", ".", "2", ".", "3", "%)", " ", "missing values">>]>>

ProfileFiles(i) ==
    {Absent, ReportWith(ProfileNames[i], AlertTable(SampleAlerts, i)),
     ReportWith(ProfileNames[i], AlertTable(MalformedAlerts, 1))}

ChartStems == Range(ChartNames) \cup {"dashboard_mockup"}

\* web/ before the run: never built, or left by an earlier run
OutputTrees ==
    {[dirs |-> FALSE, charts |-> [stem \in ChartStems |-> Absent],
      metrics_json |-> Absent, metrics_js |-> Absent],
     [dirs |-> TRUE,
      charts |-> [stem \in ChartStems |->
                     IF stem = "qq_raw_vs_log" THEN Bytes(<<"old">>) ELSE Absent],
      metrics_json |-> Text(<<Lit("{}")>>),
      metrics_js |->
          Text(<<Lit("window.dashboardMetrics = "), Lit("{}"), Lit(";\n")>>)]}

Init ==
    /\ \E nb \in NotebookFiles, first \in ProfileFiles(1),
          second \in ProfileFiles(2), mockup \in BOOLEAN, tree \in OutputTrees :
          fs = [nb |-> nb, profiles |-> <<first, second>>, mockup |-> mockup,
                dirs |-> tree.dirs, charts |-> tree.charts,
                metrics_json |-> tree.metrics_json,
                metrics_js |-> tree.metrics_js]
    /\ pc = "main"
    /\ notebook = None /\ chart_files = None
    /\ profile_path = None /\ profile_report = None
    /\ metrics = None /\ error = None
    /\ fn = "main" /\ arg = None /\ ret = None

Fail(exc) ==
    /\ pc' = "failed"
    /\ error' = exc

\* main that makes the output directories before it looks for the notebook
CheckNotebookAfterDirs ==
    /\ pc = "main"
    /\ fs' = [fs EXCEPT !.dirs = TRUE]
    /\ IF fs.nb = Absent
       THEN Fail(Raise("FileNotFoundError"))
       ELSE pc' = "load_notebook" /\ UNCHANGED error
    /\ UNCHANGED <<notebook, chart_files, profile_path, profile_report,
                   metrics, fn, arg, ret>>
\* if not NOTEBOOK_PATH.exists(): raise FileNotFoundError
CheckNotebook ==
    /\ pc = "main"
    /\ IF fs.nb = Absent
       THEN Fail(Raise("FileNotFoundError"))
       ELSE pc' = "ensure_dirs" /\ UNCHANGED error
    /\ UNCHANGED <<fs, notebook, chart_files, profile_path, profile_report,
                   metrics, fn, arg, ret>>

EnsureDirs ==
    /\ pc = "ensure_dirs"
    /\ fs' = [fs EXCEPT !.dirs = TRUE]
    /\ pc' = "load_notebook"
    /\ UNCHANGED <<notebook, chart_files, profile_path, profile_report,
                   metrics, error, fn, arg, ret>>

LoadNotebook ==
    /\ pc = "load_notebook"
    /\ \E loaded \in {json_load(fs.nb)} :
           IF IsRaise(loaded)
           THEN Fail(loaded) /\ UNCHANGED notebook
           ELSE notebook' = loaded /\ pc' = "export_charts" /\ UNCHANGED error
    /\ UNCHANGED <<fs, chart_files, profile_path, profile_report, metrics,
                   fn, arg, ret>>

ExportCharts ==
    /\ pc = "export_charts"
    /\ \E exported \in {export_charts(notebook, fs)} :
           /\ fs' = [fs EXCEPT !.charts = exported.charts]
           /\ IF IsRaise(exported.result)
              THEN Fail(exported.result) /\ UNCHANGED chart_files
              ELSE /\ chart_files' = exported.result
                   /\ pc' = "find_profile_path"
                   /\ UNCHANGED error
    /\ UNCHANGED <<notebook, profile_path, profile_report, metrics,
                   fn, arg, ret>>

FindProfilePath ==
    /\ pc = "find_profile_path"
    /\ profile_path' = find_profile_path(fs)
    /\ pc' = IF profile_path' # None THEN "parse_profile_report"
             ELSE "build_metrics"
    /\ UNCHANGED <<fs, notebook, chart_files, profile_report, metrics, error,
                   fn, arg, ret>>

ParseProfileReport ==
    /\ pc = "parse_profile_report"
    /\ \E parsed \in {parse_profile_report(fs.profiles[profile_path.index])} :
           IF IsRaise(parsed)
           THEN Fail(parsed) /\ UNCHANGED profile_report
           ELSE /\ profile_report' = parsed
                /\ pc' = "build_metrics"
                /\ UNCHANGED error
    /\ UNCHANGED <<fs, notebook, chart_files, profile_path, metrics,
                   fn, arg, ret>>

BuildMetrics ==
    /\ pc = "build_metrics"
    /\ \E now \in Clock :
          \E built \in {build_metrics(notebook, chart_files, profile_report, now)} :
              IF IsRaise(built)
              THEN Fail(built) /\ UNCHANGED metrics
              ELSE metrics' = built /\ pc' = "write_metrics" /\ UNCHANGED error
    /\ UNCHANGED <<fs, notebook, chart_files, profile_path, profile_report,
                   fn, arg, ret>>

WriteMetrics ==
    /\ pc = "write_metrics"
    /\ \E written \in {write_metrics(metrics)} :
           fs' = [fs EXCEPT !.metrics_json = written.metrics_json,
                            !.metrics_js = written.metrics_js]
    /\ pc' = "done"
    /\ UNCHANGED <<notebook, chart_files, profile_path, profile_report,
                   metrics, error, fn, arg, ret>>

Next ==
    \/ CheckNotebook
    \/ EnsureDirs
    \/ LoadNotebook
    \/ ExportCharts
    \/ FindProfilePath
    \/ ParseProfileReport
    \/ BuildMetrics
    \/ WriteMetrics

Spec == Init /\ [][Next]_vars

----------------------------------------------------------------------------
(* Specifications of the pure functions: Init draws an argument, one       *)
(* action per function applies it.                                         *)

SeqsUpTo(A, n) == UNION {[1..k -> A] : k \in 0..n}

PureInit(args) ==
    /\ arg \in args
    /\ fn = "none" /\ ret = None /\ pc = "call"
    /\ fs = None /\ notebook = None /\ chart_files = None
    /\ profile_path = None /\ profile_report = None
    /\ metrics = None /\ error = None

Call(name, value) ==
    /\ pc = "call"
    /\ pc' = "returned" /\ fn' = name /\ ret' = value
    /\ UNCHANGED <<fs, notebook, chart_files, profile_path, profile_report,
                   metrics, error, arg>>

\* --- the scalar field parsers on  <label> <number text>
ScalarLabels ==
    {"Shape:", "Numerical features (", "Categorical features (",
     "Mean:", "Median:", "Skewness:", "Kurtosis:",
     "Q1:", "Q3:", "IQR:", "Lower bound:", "Upper bound:",
     "Rows before IQR filtering:", "Rows after IQR filtering:",
     "Rows removed as outliers:", "% removed:", "Other:"}
NumAlphabet == {"1", "2", ",", "."}
NumTexts == SeqsUpTo(NumAlphabet, MaxNumLen)

\* The console text that carries number text `num` after `label`
TextOf(label, num) ==
    CASE label = "Shape:" ->
           <<"Shape:", " ">> \o num \o <<" ", "rows", ",", " ">> \o num
               \o <<" ", "columns", "\n">>
      [] label \in {"Numerical features (", "Categorical features ("} ->
           <<label>> \o num \o <<")", "\n">>
      [] OTHER -> <<label, " ">> \o num \o <<"\n">>

InitParse == PureInit([label : ScalarLabels, num : NumTexts])

Call_parse_shape == Call("parse_shape", parse_shape(TextOf(arg.label, arg.num)))
Call_parse_feature_counts ==
    Call("parse_feature_counts", parse_feature_counts(TextOf(arg.label, arg.num)))
Call_parse_target_stats ==
    Call("parse_target_stats", parse_target_stats(TextOf(arg.label, arg.num)))
Call_parse_iqr_bounds ==
    Call("parse_iqr_bounds", parse_iqr_bounds(TextOf(arg.label, arg.num)))
Call_parse_iqr_row_counts ==
    Call("parse_iqr_row_counts", parse_iqr_row_counts(TextOf(arg.label, arg.num)))
Call_parse_number == Call("parse_number", parse_number(arg.num))

NextParse ==
    \/ Call_parse_shape
    \/ Call_parse_feature_counts
    \/ Call_parse_target_stats
    \/ Call_parse_iqr_bounds
    \/ Call_parse_iqr_row_counts
    \/ Call_parse_number

SpecParse == InitParse /\ [][NextParse]_vars

\* --- parse_size_to_bytes on  <number text><space?><unit word>
UnitWords == {"B", "KiB", "MiB", "GiB", "TiB", "KB", "MB", "GB", "TB",
              "mib", "kb", "iB", "PB", "bytes"}
InitSize ==
    PureInit([num : NumTexts, sep : {<<>>, <<" ">>}, unit : UnitWords \cup {""}])

SizeText(a) == a.num \o a.sep \o (IF a.unit = "" THEN <<>> ELSE <<a.unit>>)

Call_parse_size_to_bytes ==
    Call("parse_size_to_bytes", parse_size_to_bytes(SizeText(arg)))

NextSize == Call_parse_size_to_bytes

SpecSize == InitSize /\ [][NextSize]_vars

\* --- parse_driver_list on  <open> <operand tokens> <close>
DriverAlphabet == {"'A'", "'B'", "5", "None", ",", " "}
DriverTexts ==
    {open \o body \o close :
        open \in {<<>>, <<"[">>, <<"(">>},
        body \in SeqsUpTo(DriverAlphabet, MaxDriverLen),
        close \in {<<>>, <<"]">>, <<")">>}}
InitDriverList == PureInit(DriverTexts)

Call_parse_driver_list == Call("parse_driver_list", parse_driver_list(arg))

NextDriverList == Call_parse_driver_list

SpecDriverList == InitDriverList /\ [][NextDriverList]_vars

\* --- build_metrics on notebooks that differ in the correlation table
\* (cell 33) and in the driver list (cell 35)
RECURSIVE JoinWith(_, _)
JoinWith(parts, sep) ==
    IF parts = <<>> THEN <<>>
    ELSE IF Len(parts) = 1 THEN parts[1]
    ELSE parts[1] \o sep \o JoinWith(Tail(parts), sep)

DriverLits == {<<"'A'">>, <<"'B'">>, <<"'AB'">>}
DriverListTexts ==
    {<<"[">> \o JoinWith(lits, <<",", " ">>) \o <<"]">> :
        lits \in SeqsUpTo(DriverLits, MaxDrivers)}
TableLines ==
    {<<"A", " ", "0", ".", "5">>, <<"B", " ", "-", "0", ".", "2">>,
     <<"A", " ", "1">>, <<"A", "B", " ", " ", "2">>,
     <<"Name:", " ", "SalePrice">>}
TableTexts ==
    {JoinWith(lines, <<"\n">>) : lines \in SeqsUpTo(TableLines, MaxTableRows)}

NotebookWith(table, drivers) ==
    [cells |-> List([k \in 1..NotebookCells |->
        IF k - 1 = 33 THEN Cell(<<PlainOut(table)>>)
        ELSE IF k - 1 = 35 THEN Cell(<<PlainOut(drivers)>>)
        ELSE SampleCell(k - 1)])]

InitDrivers == PureInit([table : TableTexts, drivers : DriverListTexts])

Call_build_metrics ==
    Call("build_metrics",
         build_metrics(NotebookWith(arg.table, arg.drivers), List(<<>>), None,
                       "2026-01-01T00:00:00+00:00"))

NextDrivers == Call_build_metrics

SpecDrivers == InitDrivers /\ [][NextDrivers]_vars

\* --- build_metrics on notebooks that differ in the row counts of the IQR
\* filter (cell 23) and in the missingness table (cell 27); a line whose
\* number text is empty is not printed
CountTexts(digits) == SeqsUpTo(digits, MaxRowDigits)
PctTexts == {<<>>, <<"2", ".", "5">>}

LineOf(label, num) ==
    IF num = <<>> THEN <<>> ELSE <<label, " ">> \o num \o <<"\n">>

RowCountText(a) ==
    LineOf("Rows before IQR filtering:", a.before)
        \o LineOf("Rows after IQR filtering:", a.after)
        \o LineOf("% removed:", a.pct)

MissingTableText(a) ==
    LineOf("PoolQC", a.count) \o <<"Alley", " ", "3", "\n", "dtype:", " ", "int64">>

NotebookWithRows(a) ==
    [cells |-> List([k \in 1..NotebookCells |->
        IF k - 1 = 23 THEN Cell(<<StreamOut(RowCountText(a))>>)
        ELSE IF k - 1 = 27 THEN Cell(<<PlainOut(MissingTableText(a))>>)
        ELSE SampleCell(k - 1)])]

InitRows ==
    PureInit([before : CountTexts({"0", "2"}), after : CountTexts({"0", "2"}),
              pct : PctTexts, count : CountTexts({"0", "7"})])

Call_build_metrics_rows ==
    Call("build_metrics",
         build_metrics(NotebookWithRows(arg), List(<<>>), None,
                       "2026-01-01T00:00:00+00:00"))

NextRows == Call_build_metrics_rows

SpecRows == InitRows /\ [][NextRows]_vars

\* --- the cell readers on cells of up to MaxOutputs outputs
OutputKinds ==
    {StreamOut(<<"a", "<U+2500>", "\n">>),
     StreamOut(<<"b">>),
     [output_type |-> "stream", text |-> NoKey, data |-> NoKey],
     PlainOut(<<"p", "<U+00B2>">>),
     PlainOut(<<"q">>),
     PngOut(<<"QUJD", "\n", "REVG">>),
     [output_type |-> "display_data", text |-> NoKey,
      data |-> [t |-> "dict", plain |-> NoKey, png |-> List(<<<<"QUJ">>>>)]],
     [output_type |-> "error", text |-> NoKey, data |-> NoKey]}

InitCells == PureInit({Cell(outputs) : outputs \in SeqsUpTo(OutputKinds, MaxOutputs)})

Call_get_stream_text == Call("get_stream_text", Str(get_stream_text(arg)))
Call_get_first_text_plain ==
    Call("get_first_text_plain", Str(get_first_text_plain(arg)))
Call_extract_png_from_cell ==
    Call("extract_png_from_cell", extract_png_from_cell(arg))

NextCells ==
    \/ Call_get_stream_text
    \/ Call_get_first_text_plain
    \/ Call_extract_png_from_cell

SpecCells == InitCells /\ [][NextCells]_vars

\* --- parse_profile_report on reports that differ in their alert table:
\* a base of up to MaxBase alerts, written `reps` times over, the alert at
\* position k being about feature F<k>
AlertKinds ==
    {[type |-> "Missing",
      message |-> <<"has", " ", "1", " ", "(", "2", ".", "5", "%)", " ", "missing values">>],
     [type |-> "Missing",
      message |-> <<"has", " ", "1", ",", "2", " ", "(", "7", "%)", " ", "missing values">>],
     [type |-> "Missing",
      message |-> <<"has", " ", "3", " ", "(", "7", ".", "0", "%)", " ", "missing values">>],
     [type |-> "Zeros",
      message |-> <<"has", " ", "4", " ", "(", "7", "%)", " ", "zeros">>],
     [type |-> "Zeros",
      message |-> <<"has", " ", "5", " ", "(", "9", ".", "1", "%)", " ", "zeros">>],
     [type |-> "Imbalance",
      message |-> <<"is highly imbalanced", " ", "(", "7", "%)">>],
     [type |-> "Zeros",
      message |-> <<"has", " ", "6", " ", "(", "8", "%)", " ", "missing values">>],
     [type |-> "Missing",
      message |-> <<"has", " ", "1", " ", "(", "1", ".", "2", ".", "3", "%)", " ", "missing values">>]}

InitAlerts ==
    PureInit({ReportWith("ames_house_prices_profile.html", AlertTable(base, reps)) :
                 base \in SeqsUpTo(AlertKinds, MaxBase), reps \in 1..MaxReps})

Call_parse_profile_report ==
    Call("parse_profile_report", parse_profile_report(arg))

NextAlerts == Call_parse_profile_report

SpecAlerts == InitAlerts /\ [][NextAlerts]_vars

----------------------------------------------------------------------------
(* Claims about the scalar parsers (SpecParse).                            *)

Returned(name) == pc = "returned" /\ fn = name

\* C1: every field parser is total: whatever the text, also when a label is
\* followed by malformed numeric text of digits, commas and dots, the parser
\* returns a value and never raises.
C1_ParsersNeverRaise == pc = "returned" => ~IsRaise(ret)

\* The parser whose pattern table holds `label`
ParserOf(label) ==
    CASE label \in {"Mean:", "Median:", "Skewness:", "Kurtosis:"} ->
           "parse_target_stats"
      [] label \in {"Q1:", "Q3:", "IQR:", "Lower bound:", "Upper bound:"} ->
           "parse_iqr_bounds"
      [] label \in {"Rows before IQR filtering:", "Rows after IQR filtering:",
                    "Rows removed as outliers:", "% removed:"} ->
           "parse_iqr_row_counts"
      [] OTHER -> "none"

Apply(name, text) ==
    CASE name = "parse_target_stats" -> parse_target_stats(text)
      [] name = "parse_iqr_bounds" -> parse_iqr_bounds(text)
      [] name = "parse_iqr_row_counts" -> parse_iqr_row_counts(text)

\* `num` is a number written with separators: every comma stands between two
\* digits, and without the commas the text is a decimal number.
ThousandsWritten(num) ==
    /\ \A i \in 1..Len(num) :
          num[i] = "," => /\ i > 1 /\ num[i - 1] \in Digits
                          /\ i < Len(num) /\ num[i + 1] \in Digits
    /\ ~IsRaise(PyFloat(Remove(num, ",")))

\* The parser of the label gives, for the number written with separators,
\* what it gives for the number written without them.
CommasIgnored(labels) ==
    (/\ pc = "returned"
     /\ arg.label \in labels
     /\ fn = ParserOf(arg.label)
     /\ ThousandsWritten(arg.num))
    => ret = Apply(fn, TextOf(arg.label, Remove(arg.num, ",")))

ScalarPatternLabels == {l \in ScalarLabels : ParserOf(l) # "none"}

\* C6 as stated: for every scalar field of a  <label>: <number>  pattern
\* (% removed included) a number written with thousands separators parses to
\* the value of the same number written without them.
C6_CommasIgnoredEveryField == CommasIgnored(ScalarPatternLabels)

\* C6 as amended: the same, for every scalar field but "% removed", whose
\* pattern [\d\.]+ stops at the first comma.
C6_CommasIgnoredButPct == CommasIgnored(ScalarPatternLabels \ {"% removed:"})

\* C6 witness: "Rows before IQR filtering: 1,2" has been parsed to 12, and
\* "Mean: 1,2.1" to 12.1
C6_Witness ==
    \/ /\ Returned("parse_iqr_row_counts")
       /\ arg = [label |-> "Rows before IQR filtering:", num |-> <<"1", ",", "2">>]
       /\ ret.rows_before_iqr = IntV(12)
    \/ /\ Returned("parse_target_stats")
       /\ arg = [label |-> "Mean:", num |-> <<"1", ",", "2", ".", "1">>]
       /\ ret.mean_saleprice = Float(121, 1)

----------------------------------------------------------------------------
(* Claims about parse_size_to_bytes (SpecSize).                            *)

\* What C10 states of  <amount><unit> : the amount times the multiplier of
\* the unit, and null when the unit is not in the table or the text is not
\* of the amount-unit shape.
UnitMultiplier(unit) ==
    CASE unit = "B" -> 1
      [] unit = "KIB" -> 1024
      [] unit = "MIB" -> 1024 * 1024
      [] unit = "GIB" -> 1024 * 1024 * 1024
      [] unit = "KB" -> 1000
      [] unit = "MB" -> 1000 * 1000
      [] unit = "GB" -> 1000 * 1000 * 1000
      [] OTHER -> 0
SizeStated(a) ==
    LET amount == PyFloat(Remove(a.num, ","))
    IN  IF a.unit = "" \/ IsRaise(amount) \/ UnitMultiplier(Upper(a.unit)) = 0
        THEN None
        ELSE FloatTimes(amount, UnitMultiplier(Upper(a.unit)))

\* C10: parse_size_to_bytes maps "<amount> <unit>" to amount times the
\* multiplier of the unit (powers of 1024 for binary units, of 1000 for
\* decimal units, the unit matched case-insensitively) and returns null for
\* every text whose unit is not in the table or that is not of the
\* amount-unit shape.
C10_SizeAsStated == Returned("parse_size_to_bytes") => ret = SizeStated(arg)

----------------------------------------------------------------------------
(* Claims about parse_driver_list (SpecDriverList) and the driver details  *)
(* of build_metrics (SpecDrivers).                                         *)

\* The text is a literal sequence expression: a list, a tuple or a string
IsSequenceLiteral(text) ==
    /\ Strip(text) # <<>>
    /\ literal_eval(Strip(text)) # Malformed
    /\ literal_eval(Strip(text)).t \in {"list", "tuple", "str"}

\* C5: for every text block that is not a literal sequence expression (empty
\* text, text that is no literal, or a literal that is no sequence: a bare
\* number, None) parse_driver_list returns the empty list and raises nothing.
C5_NoSequenceGivesEmpty ==
    (Returned("parse_driver_list") /\ ~IsSequenceLiteral(arg))
        => ret = List(<<>>)

\* C8: top_drivers has one entry per parsed driver name, in the parsed
\* order; a driver whose name is a feature of the parsed correlation table
\* carries the correlation of a row of that feature, and a driver whose name
\* the table does not hold is kept with a null correlation.
C8_OneEntryPerDriver ==
    (Returned("build_metrics") /\ ~IsRaise(ret)) =>
        LET names == parse_driver_list(arg.drivers).items
            rows == parse_correlation_table(arg.table).items
            td == ret.top_drivers
            RowsOf(name) == {r \in 1..Len(rows) : rows[r].feature = name}
        IN  /\ Len(td) = Len(names)
            /\ \A i \in 1..Len(names) :
                  /\ td[i].feature = names[i]
                  /\ IF RowsOf(names[i]) = {}
                     THEN td[i].correlation = None
                     ELSE \E r \in RowsOf(names[i]) :
                              td[i].correlation = rows[r].correlation

\* C8 witness: a record whose driver list holds a driver of the table and a
\* driver the table does not hold
C8_Witness ==
    /\ Returned("build_metrics") /\ ~IsRaise(ret)
    /\ \E i, j \in 1..Len(ret.top_drivers) :
          /\ ret.top_drivers[i].correlation # None
          /\ ret.top_drivers[j].correlation = None

----------------------------------------------------------------------------
(* Claims about main (Spec).                                               *)

Loaded == notebook # None
Failed(exc) == pc = "failed" /\ error = Raise(exc)

\* C2: once the notebook document is loaded, the run never aborts because
\* of missing content (a cell position the notebook does not have, or a
\* position without the expected output): it is never the case that main
\* has ended in the exception of a missing cell or key.
C2_NeverAbortsOnMissingContent ==
    Loaded => ~(Failed("IndexError") \/ Failed("KeyError"))

NotebookAbsent == fs.nb = Absent

\* C3: if the notebook document is absent, the first step of main raises
\* FileNotFoundError and ends the run, and no step of main changes the file
\* system: no directory is made, no chart is written, metrics.json and
\* metrics.js stay as they were.
C3_AbsentNotebookIsFatal ==
    [][NotebookAbsent =>
          (/\ fs' = fs
           /\ pc = "main"
           /\ pc' = "failed"
           /\ error' = Raise("FileNotFoundError"))]_vars

\* C3 witness: the run has ended in FileNotFoundError on a tree where no
\* output directory exists
C3_Witness ==
    /\ NotebookAbsent /\ Failed("FileNotFoundError")
    /\ ~fs.dirs /\ fs.metrics_json = Absent /\ fs.metrics_js = Absent
    /\ \A stem \in ChartStems : fs.charts[stem] = Absent

\* The positions of main from which it takes a step
MainSteps ==
    {"main", "ensure_dirs", "load_notebook", "export_charts",
     "find_profile_path", "build_metrics", "write_metrics"}

NoProfile == \A i \in 1..Len(ProfileNames) : fs.profiles[i] = Absent
FirstExisting == Min({i \in 1..Len(ProfileNames) : fs.profiles[i] # Absent})

\* The notebook processing of main raises nothing on the notebook file
NotebookParses ==
    /\ fs.nb # Absent
    /\ ~IsRaise(json_load(fs.nb))
    /\ ~IsRaise(export_charts(json_load(fs.nb), fs).result)
    /\ \A now \in Clock : ~IsRaise(build_metrics(json_load(fs.nb), List(<<>>), None, now))

NotebookKeys(m) ==
    <<m.summary, m.top_correlations, m.top_drivers, m.top_neighborhoods,
      m.top_neighborhood, m.top_missing_features, m.chart_files>>

\* C4: if neither candidate profile document exists then, for a notebook
\* that parses, the run never fails and is at a step of main, none of which
\* parses a profile, until it is done, the written
\* record has a null profile_overview and a null meta.source_profile, and
\* its notebook-derived keys are those computed from the notebook; if a
\* candidate exists, the first existing one in the fixed order is the one
\* parsed and named in the record.
C4_ProfileOptionalFirstWins ==
    /\ (NoProfile /\ NotebookParses) =>
          /\ pc # "failed"
          /\ pc \in MainSteps \cup {"done"}
    /\ (NoProfile /\ pc = "done") =>
          /\ fs.metrics_json = Text(json_dumps(MetricsJson(metrics)))
          /\ metrics.profile_overview = None
          /\ metrics.meta.source_profile = None
          /\ \E now \in Clock :
                NotebookKeys(metrics) =
                    NotebookKeys(build_metrics(notebook, chart_files, None, now))
    /\ (~NoProfile /\ pc \in {"build_metrics", "write_metrics", "done"}) =>
          /\ profile_path = Path(FirstExisting)
          /\ profile_report = parse_profile_report(fs.profiles[FirstExisting])
    /\ (~NoProfile /\ pc = "done") =>
          /\ fs.metrics_json = Text(json_dumps(MetricsJson(metrics)))
          /\ metrics.meta.source_profile = ProfileNames[FirstExisting]
          /\ metrics.profile_overview =
                 parse_profile_report(fs.profiles[FirstExisting])

\* C4 witness: a run without a profile document has written a record that
\* carries the drivers and the charts of the notebook
C4_Witness ==
    /\ NoProfile /\ pc = "done"
    /\ fs.metrics_json = Text(json_dumps(MetricsJson(metrics)))
    /\ metrics.profile_overview = None
    /\ metrics.top_drivers # <<>>
    /\ metrics.summary.total_rows = IntV(12)
    /\ metrics.chart_files.items # <<>>

----------------------------------------------------------------------------
(* Claims about the cell readers (SpecCells).                              *)

StreamOutputs(cell) ==
    SelectSeq(cell.outputs, LAMBDA o : o.output_type = "stream")
PlainOutputs(cell) ==
    SelectSeq(cell.outputs,
              LAMBDA o : o.data # NoKey /\ o.data.plain # NoKey)
TextOfOutput(o) == IF o.text = NoKey THEN <<>> ELSE Join(o.text.items)
Ascii(text) == SelectSeq(text, LAMBDA c : c \notin NonAscii)

FirstStreamText(cell) ==
    IF StreamOutputs(cell) = <<>> THEN <<>>
    ELSE Ascii(TextOfOutput(StreamOutputs(cell)[1]))
FirstPlainText(cell) ==
    IF PlainOutputs(cell) = <<>> THEN <<>>
    ELSE Ascii(Join(PlainOutputs(cell)[1].data.plain.items))
RECURSIVE AllTexts(_)
AllTexts(outputs) ==
    IF outputs = <<>> THEN <<>>
    ELSE AllTexts(SubSeq(outputs, 1, Len(outputs) - 1))
             \o TextOfOutput(outputs[Len(outputs)])

\* C9 as stated: both readers return the text of the first output of the
\* requested kind only (the first stream output for get_stream_text, the
\* first text/plain rendering for get_first_text_plain), non-ASCII
\* characters removed.
C9_FirstPayloadOnly ==
    /\ Returned("get_stream_text") => ret = Str(FirstStreamText(arg))
    /\ Returned("get_first_text_plain") => ret = Str(FirstPlainText(arg))

\* C9 as amended: get_first_text_plain returns the text of the first
\* text/plain rendering only; get_stream_text returns the texts of all the
\* stream outputs of the cell, concatenated in output order; both with the
\* non-ASCII characters removed.
C9_FirstPlainAllStreams ==
    /\ Returned("get_stream_text") => ret = Str(Ascii(AllTexts(StreamOutputs(arg))))
    /\ Returned("get_first_text_plain") => ret = Str(FirstPlainText(arg))

\* C9 witness: a cell of two stream outputs of different text has been
\* read, and a cell of two different text/plain renderings
C9_Witness ==
    \/ /\ Returned("get_stream_text")
       /\ Len(StreamOutputs(arg)) >= 2
       /\ TextOfOutput(StreamOutputs(arg)[1]) # <<>>
       /\ TextOfOutput(StreamOutputs(arg)[2]) # <<>>
       /\ ret # Str(FirstStreamText(arg))
    \/ /\ Returned("get_first_text_plain")
       /\ Len(PlainOutputs(arg)) >= 2
       /\ PlainOutputs(arg)[1] # PlainOutputs(arg)[2]

----------------------------------------------------------------------------
(* Claims about the ranked alert lists (SpecAlerts).                       *)

\* The positions of the raw alert list whose alert the sub-parser of the
\* category parses
Candidates(category, alert_rows) ==
    {k \in 1..Len(alert_rows) : ParseAlert(category, alert_rows[k]) # None}

\* `list` is the first at most TopAlerts of the parsed alerts of `category`
\* in descending order of the percentage, alerts of equal percentage in the
\* order of the raw alert list.
Ranked(list, category, alert_rows) ==
    LET cand == Candidates(category, alert_rows)
        parsed == [k \in 1..Len(alert_rows) |->
                      ParseAlert(category, alert_rows[k])]
        \* alert k ranks before alert l
        Before(k, l) ==
            \/ FloatLess(parsed[l].pct, parsed[k].pct)
            \/ (parsed[k].pct = parsed[l].pct /\ k < l)
        \* the position in the raw list of the alert at place i of the list
        at == [i \in 1..Len(list) |->
                  CHOOSE k \in 1..Len(alert_rows) :
                      alert_rows[k].feature = list[i].feature]
    IN  /\ Len(list) = (IF Cardinality(cand) < 15 THEN Cardinality(cand) ELSE 15)
        /\ \A i \in 1..Len(list) :
              /\ at[i] \in cand
              /\ list[i] = parsed[at[i]]
              /\ \A j \in (i + 1)..Len(list) : Before(at[i], at[j])
              /\ \A k \in cand :
                    (\A j \in 1..Len(list) : at[j] # k) => Before(at[i], k)

\* C7: each ranked alert list (top_missing_alerts, top_zero_alerts,
\* top_imbalance_alerts) is the first at most 15 entries of the parsed alerts
\* of its category sorted descending by the percentage, and entries of equal
\* percentage appear in the order they have in the raw alert list.
C7_RankedAlertLists ==
    (Returned("parse_profile_report") /\ ~IsRaise(ret)) =>
        /\ Ranked(ret.top_missing_alerts, "Missing", arg.alert_rows)
        /\ Ranked(ret.top_zero_alerts, "Zeros", arg.alert_rows)
        /\ Ranked(ret.top_imbalance_alerts, "Imbalance", arg.alert_rows)

\* C7 witness: a report of more than 15 parsed missing-value alerts, two
\* of them of different percentage and two of the listed ones of equal
\* percentage
C7_Witness ==
    /\ Returned("parse_profile_report") /\ ~IsRaise(ret)
    /\ Cardinality(Candidates("Missing", arg.alert_rows)) > 15
    /\ Len(ret.top_missing_alerts) = 15
    /\ ret.top_missing_alerts[1].pct # ret.top_missing_alerts[15].pct
    /\ \E i \in 1..14 :
          ret.top_missing_alerts[i].pct = ret.top_missing_alerts[i + 1].pct

----------------------------------------------------------------------------
(* Claims about the percentage fields (SpecRows).                          *)

Positive(value) == value # None /\ value.v > 0

\* C11 as stated: in the record, rows_removed_pct_iqr is non-null only if
\* rows_before_iqr was parsed and is positive, and missing_pct of every
\* row of top_missing_features is non-null only if rows_after_iqr was
\* parsed and is positive.
C11_PctOnlyWithDenominator ==
    (Returned("build_metrics") /\ ~IsRaise(ret)) =>
        /\ ret.summary.rows_removed_pct_iqr # None =>
               Positive(ret.summary.rows_before_iqr)
        /\ \A i \in 1..Len(ret.top_missing_features) :
               ret.top_missing_features[i].missing_pct # None =>
                   Positive(ret.summary.rows_after_iqr)

\* C11 as amended: missing_pct of every row of top_missing_features is
\* non-null exactly if rows_after_iqr was parsed and is positive;
\* rows_removed_pct_iqr is not derived from the row counts: it is the number
\* printed after "% removed:", whatever the row counts are, and null only
\* if that line is not there.
C11_MissingPctOnlyWithDenominator ==
    (Returned("build_metrics") /\ ~IsRaise(ret)) =>
        /\ \A i \in 1..Len(ret.top_missing_features) :
               ret.top_missing_features[i].missing_pct # None <=>
                   Positive(ret.summary.rows_after_iqr)
        /\ ret.summary.rows_removed_pct_iqr =
               (IF arg.pct = <<>> THEN None ELSE Float(25, 1))

\* C11 witness: a record of a notebook that prints "% removed" and a
\* positive row count after the filter but no row count before it: both
\* percentages are there
C11_Witness ==
    /\ Returned("build_metrics") /\ ~IsRaise(ret)
    /\ ret.summary.rows_before_iqr = None
    /\ ret.summary.rows_removed_pct_iqr # None
    /\ Positive(ret.summary.rows_after_iqr)
    /\ Len(ret.top_missing_features) = 2
    /\ ret.top_missing_features[1].missing_pct # None

----------------------------------------------------------------------------
(* Claims about the two written outputs, checked under Spec.               *)

JsPrefix == <<Lit("window.dashboardMetrics = ")>>
JsSuffix == <<Lit(";\n")>>

\* C12: after a successful run metrics.js is exactly the text
\* "window.dashboardMetrics = ", then the full content of metrics.json, then
\* ";\n", and metrics.json is the indented encoding of the record of
\* build_metrics: both writers carry the same record.
C12_OutputsCarrySameRecord ==
    pc = "done" =>
        /\ fs.metrics_json = Text(Encode(MetricsJson(metrics), JsonIndent, 0))
        /\ fs.metrics_js = Text(JsPrefix \o fs.metrics_json.tokens \o JsSuffix)

\* A finished run with a profile report, drivers and charts in the record,
\* written over older outputs or into a clean tree
C12_Witness ==
    /\ pc = "done"
    /\ metrics.profile_overview # None
    /\ metrics.profile_overview.alerts # <<>>
    /\ metrics.top_drivers # <<>>
    /\ metrics.chart_files.items # <<>>
    /\ fs.metrics_json # Text(<<Lit("{}")>>)
    /\ Len(fs.metrics_js.tokens) = Len(fs.metrics_json.tokens) + 2

====
